---- MODULE Spec2Model ----
(***************************************************************************)
(* Model of weather_utils.py: fetch_weather_data, parse_weather_response,  *)
(* validate_weather_record and get_weather_description.                    *)
(*                                                                         *)
(* Python values are tagged records, so that values of different Python    *)
(* types can be compared: None, bool, numbers (integers stand for the      *)
(* floats of the program), NaN, str, datetime, list and dict.  A str that  *)
(* is the ISO-8601 rendering of the instant n is IsoStr(n); every other    *)
(* str is Str(s).  A dict is a function from its keys to values: a key is  *)
(* missing when it is not in the function's domain.                        *)
(***************************************************************************)
EXTENDS Integers, Sequences, FiniteSets, TLC

VARIABLES pc, op, args, response, requests, clock, parsed, ret

vars == <<pc, op, args, response, requests, clock, parsed, ret>>

(***************************************************************************)
(* Bounds of the exploration.                                              *)
(***************************************************************************)
Margin == 1      \* how far beyond each end of a validated range the inputs go
MaxClock == 1    \* the wall clock runs over 0..MaxClock
MaxCode == 100   \* weather codes are drawn from -MaxCode..MaxCode

(***************************************************************************)
(* Program constants.                                                      *)
(***************************************************************************)
CALGARY_LAT == 51
CALGARY_LON == -114
LatMin == -90
LatMax == 90
LonMin == -180
LonMax == 180
TempMin == -100
TempMax == 60

(***************************************************************************)
(* Python values.                                                          *)
(***************************************************************************)
None == [t |-> "None"]
Bool(b) == [t |-> "bool", v |-> b]
Num(n) == [t |-> "num", v |-> n]
NaN == [t |-> "nan"]
Str(s) == [t |-> "str", v |-> s]
IsoStr(n) == [t |-> "isostr", v |-> n]
Datetime(n) == [t |-> "datetime", v |-> n]
List(q) == [t |-> "list", v |-> q]
Dict(f) == [t |-> "dict", v |-> f]

EmptyDict == Dict([k \in {} |-> None])

\* How a call ends: it returns a value or an exception leaves it.
Return(v) == [kind |-> "return", val |-> v]
Raise(e) == [kind |-> "raise", exc |-> e]
Pending == [kind |-> "pending"]

\* bool(x): the truth value of a Python value.
Truthy(x) ==
    CASE x.t = "None" -> FALSE
      [] x.t = "bool" -> x.v
      [] x.t = "num" -> x.v # 0
      [] x.t = "str" -> x.v # ""
      [] x.t = "list" -> x.v # <<>>
      [] x.t = "dict" -> DOMAIN x.v # {}
      [] OTHER -> TRUE

\* key in d, for a dict d.
Has(d, key) == d.t = "dict" /\ key \in DOMAIN d.v

\* d.get(key, default): an AttributeError on a value that is no dict.
Get(d, key, default) ==
    IF d.t # "dict" THEN Raise("AttributeError")
    ELSE IF key \in DOMAIN d.v THEN Return(d.v[key])
    ELSE Return(default)

\* datetime.isoformat() and datetime.fromisoformat(s).
isoformat(d) == IsoStr(d.v)

fromisoformat(s) ==
    IF s.t = "isostr" THEN Return(Datetime(s.v))
    ELSE IF s.t = "str" THEN Raise("ValueError")
    ELSE Raise("TypeError")

(***************************************************************************)
(* validate_weather_record                                                 *)
(***************************************************************************)
required_fields == <<"timestamp", "latitude", "longitude", "temperature", "city">>

\* `field in record`: a dict has its keys, a list its elements, a str its
\* substrings (the strings drawn here are field names or contain none).
SupportsIn(record) == record.t \in {"dict", "list", "str", "isostr"}

Contains(record, field) ==
    CASE record.t = "dict" -> field \in DOMAIN record.v
      [] record.t = "list" -> \E i \in DOMAIN record.v : record.v[i] = Str(field)
      [] record.t = "str" -> record.v = field
      [] OTHER -> FALSE

Fallthrough == [kind |-> "fallthrough"]

\* The loop over required_fields: the outcome that ends the call, or
\* Fallthrough when every field passes.
RECURSIVE CheckRequired(_, _)
CheckRequired(record, fields) ==
    IF fields = <<>> THEN Fallthrough
    ELSE LET field == Head(fields) IN
         IF ~SupportsIn(record) THEN Raise("TypeError")
         ELSE IF ~Contains(record, field) THEN Return(Bool(FALSE))
         ELSE IF record.t # "dict" THEN Raise("TypeError")
         ELSE IF record.v[field] = None THEN Return(Bool(FALSE))
         ELSE CheckRequired(record, Tail(fields))

\* Faulty variant of Outside: not (lo < x < hi), the ends rejected.
OutsideExclusive(lo, x, hi) ==
    CASE x.t = "num" -> Return(Bool(~(lo < x.v /\ x.v < hi)))
      [] x.t = "bool" -> Return(Bool(~(lo < (IF x.v THEN 1 ELSE 0)
                                       /\ (IF x.v THEN 1 ELSE 0) < hi)))
      [] x.t = "nan" -> Return(Bool(TRUE))
      [] OTHER -> Raise("TypeError")

\* not (lo <= x <= hi): TRUE, FALSE, or a TypeError when x has no order
\* against a number.
Outside(lo, x, hi) ==
    CASE x.t = "num" -> Return(Bool(~(lo <= x.v /\ x.v <= hi)))
      [] x.t = "bool" -> Return(Bool(~(lo <= (IF x.v THEN 1 ELSE 0)
                                       /\ (IF x.v THEN 1 ELSE 0) <= hi)))
      [] x.t = "nan" -> Return(Bool(TRUE))
      [] OTHER -> Raise("TypeError")

validate_weather_record(record) ==
    IF record = None THEN Return(Bool(FALSE))
    ELSE LET req == CheckRequired(record, required_fields)
             lat == Outside(LatMin, record.v["latitude"], LatMax)
             lon == Outside(LonMin, record.v["longitude"], LonMax)
             tmp == Outside(TempMin, record.v["temperature"], TempMax)
         IN  IF req # Fallthrough THEN req
             ELSE IF lat.kind = "raise" THEN lat
             ELSE IF lat.val.v THEN Return(Bool(FALSE))
             ELSE IF lon.kind = "raise" THEN lon
             ELSE IF lon.val.v THEN Return(Bool(FALSE))
             ELSE IF tmp.kind = "raise" THEN tmp
             ELSE IF tmp.val.v THEN Return(Bool(FALSE))
             ELSE Return(Bool(TRUE))

(***************************************************************************)
(* get_weather_description                                                 *)
(***************************************************************************)
weather_codes ==
    (0 :> "Clear sky") @@ (1 :> "Mainly clear") @@ (2 :> "Partly cloudy")
    @@ (3 :> "Overcast") @@ (45 :> "Fog") @@ (48 :> "Depositing rime fog")
    @@ (51 :> "Light drizzle") @@ (53 :> "Moderate drizzle")
    @@ (55 :> "Dense drizzle") @@ (61 :> "Slight rain")
    @@ (63 :> "Moderate rain") @@ (65 :> "Heavy rain")
    @@ (71 :> "Slight snow") @@ (73 :> "Moderate snow")
    @@ (75 :> "Heavy snow") @@ (77 :> "Snow grains")
    @@ (80 :> "Slight rain showers") @@ (81 :> "Moderate rain showers")
    @@ (82 :> "Violent rain showers") @@ (85 :> "Slight snow showers")
    @@ (86 :> "Heavy snow showers") @@ (95 :> "Thunderstorm")
    @@ (96 :> "Thunderstorm with slight hail")
    @@ (99 :> "Thunderstorm with heavy hail")

\* Faulty variant of get_weather_description: weather_codes.get(weather_code),
\* without the default.
get_weather_description_no_default(weather_code) ==
    IF weather_code \in DOMAIN weather_codes
    THEN Return(Str(weather_codes[weather_code]))
    ELSE Return(None)

\* Faulty variant of get_weather_description: a truth test on the code
\* before the lookup, which takes code 0 for no code.
get_weather_description_falsy_zero(weather_code) ==
    IF weather_code # 0 /\ weather_code \in DOMAIN weather_codes
    THEN Return(Str(weather_codes[weather_code]))
    ELSE Return(Str("Unknown"))

get_weather_description(weather_code) ==
    IF weather_code \in DOMAIN weather_codes
    THEN Return(Str(weather_codes[weather_code]))
    ELSE Return(Str("Unknown"))

(***************************************************************************)
(* parse_weather_response                                                  *)
(*                                                                         *)
(* now1 and now2 are the two readings of datetime.now(): the default of    *)
(* current.get("time", ...), which Python evaluates whether or not the key *)
(* is present, and fetch_time.                                             *)
(***************************************************************************)
\* Evaluate the entries of a dict display in order: the first exception
\* leaves the display, otherwise the dict is built.
RECURSIVE FirstRaise(_, _)
FirstRaise(keys, entries) ==
    IF keys = <<>> THEN Fallthrough
    ELSE IF entries[Head(keys)].kind = "raise" THEN entries[Head(keys)]
    ELSE FirstRaise(Tail(keys), entries)

record_keys == <<"timestamp", "latitude", "longitude", "temperature", "humidity",
                 "wind_speed", "wind_direction", "weather_code", "city",
                 "fetch_time">>

Display(entries) ==
    LET r == FirstRaise(record_keys, entries)
    IN  IF r # Fallthrough THEN r
        ELSE Return(Dict([k \in DOMAIN entries |-> entries[k].val]))

\* The "timestamp" entry of both dict displays.
Timestamp(current, now1) ==
    LET time == Get(current, "time", isoformat(Datetime(now1)))
    IN  IF time.kind = "raise" THEN time ELSE fromisoformat(time.val)

\* Faulty variant of ParseRecord: the city is the default, not the argument.
ParseRecordDefaultCity(api_response, current, city, now1, now2) ==
    Display([timestamp |-> Timestamp(current, now1),
             latitude |-> Get(api_response, "latitude", None),
             longitude |-> Get(api_response, "longitude", None),
             temperature |-> Get(current, "temperature_2m", None),
             humidity |-> Get(current, "relative_humidity_2m", None),
             wind_speed |-> Get(current, "wind_speed_10m", None),
             wind_direction |-> Get(current, "wind_direction_10m", None),
             weather_code |-> Get(current, "weather_code", None),
             city |-> Return(Str("Calgary")),
             fetch_time |-> Return(Datetime(now2))])

\* Faulty variant of ParseRecord: latitude read from the key "longitude".
ParseRecordSwapped(api_response, current, city, now1, now2) ==
    Display([timestamp |-> Timestamp(current, now1),
             latitude |-> Get(api_response, "longitude", None),
             longitude |-> Get(api_response, "longitude", None),
             temperature |-> Get(current, "temperature_2m", None),
             humidity |-> Get(current, "relative_humidity_2m", None),
             wind_speed |-> Get(current, "wind_speed_10m", None),
             wind_direction |-> Get(current, "wind_direction_10m", None),
             weather_code |-> Get(current, "weather_code", None),
             city |-> Return(city),
             fetch_time |-> Return(Datetime(now2))])

ParseRecord(api_response, current, city, now1, now2) ==
    Display([timestamp |-> Timestamp(current, now1),
             latitude |-> Get(api_response, "latitude", None),
             longitude |-> Get(api_response, "longitude", None),
             temperature |-> Get(current, "temperature_2m", None),
             humidity |-> Get(current, "relative_humidity_2m", None),
             wind_speed |-> Get(current, "wind_speed_10m", None),
             wind_direction |-> Get(current, "wind_direction_10m", None),
             weather_code |-> Get(current, "weather_code", None),
             city |-> Return(city),
             fetch_time |-> Return(Datetime(now2))])

\* except Exception: print the error and return None.
ParseExcept(outcome) == IF outcome.kind = "raise" THEN Return(None) ELSE outcome

\* Faulty variant of parse_weather_response: no test for an empty `current`.
parse_weather_response_unchecked(api_response, city, now1, now2) ==
    LET current == Get(api_response, "current", EmptyDict)
    IN  ParseExcept(IF current.kind = "raise" THEN current
                    ELSE ParseRecord(api_response, current.val, city, now1, now2))

parse_weather_response(api_response, city, now1, now2) ==
    LET current == Get(api_response, "current", EmptyDict)
    IN  ParseExcept(IF current.kind = "raise" THEN current
                    ELSE IF ~Truthy(current.val) THEN Return(None)
                    ELSE ParseRecord(api_response, current.val, city, now1, now2))

(***************************************************************************)
(* fetch_weather_data                                                      *)
(*                                                                         *)
(* A transport outcome is an exception raised by requests.get or a         *)
(* response; a response has a status (ok or not) and a body, which is the  *)
(* text of a JSON value or is not JSON at all.                             *)
(***************************************************************************)
NoResponse == [kind |-> "none"]
HttpResponse(ok, body) == [kind |-> "response", ok |-> ok, body |-> body]
JsonBody(data) == [json |-> TRUE, data |-> data]
NotJson == [json |-> FALSE]

\* response.raise_for_status()
raise_for_status(resp) == IF resp.ok THEN Return(None) ELSE Raise("HTTPError")

\* response.json()
json(resp) ==
    IF resp.body.json THEN Return(resp.body.data) ELSE Raise("JSONDecodeError")

\* Faulty variant of FetchRecord: current["temperature_2m"], a KeyError
\* when the key is missing.
FetchRecordSubscript(current, latitude, longitude, city, now1, now2) ==
    Display([timestamp |-> Timestamp(current, now1),
             latitude |-> Return(latitude),
             longitude |-> Return(longitude),
             temperature |-> IF Has(current, "temperature_2m")
                             THEN Return(current.v["temperature_2m"])
                             ELSE Raise("KeyError"),
             humidity |-> Get(current, "relative_humidity_2m", None),
             wind_speed |-> Get(current, "wind_speed_10m", None),
             wind_direction |-> Get(current, "wind_direction_10m", None),
             weather_code |-> Get(current, "weather_code", None),
             city |-> Return(city),
             fetch_time |-> Return(Datetime(now2))])

FetchRecord(current, latitude, longitude, city, now1, now2) ==
    Display([timestamp |-> Timestamp(current, now1),
             latitude |-> Return(latitude),
             longitude |-> Return(longitude),
             temperature |-> Get(current, "temperature_2m", None),
             humidity |-> Get(current, "relative_humidity_2m", None),
             wind_speed |-> Get(current, "wind_speed_10m", None),
             wind_direction |-> Get(current, "wind_direction_10m", None),
             weather_code |-> Get(current, "weather_code", None),
             city |-> Return(city),
             fetch_time |-> Return(Datetime(now2))])

\* Faulty variant of FetchExcept: no handler, the exception leaves the call.
FetchExceptMissing(outcome) == outcome

\* except Exception: print the error and return None.
FetchExcept(outcome) == IF outcome.kind = "raise" THEN Return(None) ELSE outcome

\* Decode the body, take `current` and build the record.
FetchBody(resp, latitude, longitude, city, now1, now2) ==
    LET data == json(resp)
        current == Get(data.val, "current", EmptyDict)
    IN  IF data.kind = "raise" THEN data
        ELSE IF current.kind = "raise" THEN current
        ELSE FetchRecord(current.val, latitude, longitude, city, now1, now2)

(***************************************************************************)
(* Inputs.  Missing marks a key left out of a dict that is being drawn; it *)
(* is no Python value and Present removes it.                              *)
(***************************************************************************)
Missing == [t |-> "missing"]

Present(f) == Dict([k \in {j \in DOMAIN f : f[j] # Missing} |-> f[k]])

\* Numbers around a validated range lo..hi: up to Margin outside each end,
\* the ends, and one number inside.
Probe(lo, mid, hi) == {Num(n) : n \in (lo - Margin .. lo) \cup {mid} \cup (hi .. hi + Margin)}

NotNumbers == {Missing, None, NaN, Str("n/a")}

LatOpts == NotNumbers \cup Probe(LatMin, CALGARY_LAT, LatMax)
LonOpts == NotNumbers \cup Probe(LonMin, CALGARY_LON, LonMax)
TempOpts == NotNumbers \cup Probe(TempMin, -5, TempMax)

\* City labels: the default, another one, the empty string.
Cities == {Str("Calgary"), Str("Edmonton"), Str("")}

\* current.time: missing, null, the ISO-8601 text of an instant (an
\* observation made before the call, at -1), other text.
TimeOpts == {Missing, None, IsoStr(-1), Str("yesterday")}

Timezones == {Missing, Str("America/Edmonton")}

\* The `current` sub-object with every metric drawn on its own.
CurrentDicts(temps, humidities, others) ==
    {Present([time |-> ti, temperature_2m |-> te, relative_humidity_2m |-> hu,
              wind_speed_10m |-> ws, wind_direction_10m |-> wd, weather_code |-> wc]) :
        ti \in TimeOpts, te \in temps, hu \in humidities,
        ws \in {Num(15)} \cup others, wd \in {Num(270)} \cup others,
        wc \in {Num(3)} \cup others}

\* What else the key `current` may hold: null, empty or non-empty values
\* that are no mapping, the empty mapping.
NoCurrent == {Missing, None, Str(""), Str("clear"), List(<<>>), EmptyDict}

RawResponses(lats, lons, zones, currents) ==
    {Present([latitude |-> la, longitude |-> lo, timezone |-> tz, current |-> cu]) :
        la \in lats, lo \in lons, tz \in zones, cu \in currents}

\* Responses for the parser: every subset of metrics, few coordinates.
ParseResponses ==
    {None, List(<<>>)}
    \cup RawResponses({Missing, None, Num(CALGARY_LAT)}, {Missing, None, Num(CALGARY_LON)},
                      Timezones,
                      NoCurrent \cup CurrentDicts({Missing, None, Num(-5)},
                                                  {Missing, None, Num(72)}, {Missing}))

\* Responses for parse-then-validate: every coordinate and temperature
\* around the validated ranges, the other metrics all there or all missing.
RangeResponses ==
    RawResponses(LatOpts, LonOpts, {Str("America/Edmonton")},
                 {Missing, EmptyDict}
                 \cup CurrentDicts(TempOpts, {Num(72)}, {})
                 \cup CurrentDicts(TempOpts, {Missing}, {Missing}))

\* Bodies for the fetcher: values that are no mapping, and responses whose
\* coordinates differ from the caller's.
FetchBodies ==
    {NotJson}
    \cup {JsonBody(d) :
            d \in {None, List(<<>>), Str("ok")}
                  \cup RawResponses({Missing, Num(CALGARY_LAT + 1)},
                                    {Missing, Num(CALGARY_LON + 1)},
                                    {Str("America/Edmonton")},
                                    NoCurrent \cup CurrentDicts({Missing, None, Num(-5)},
                                                                {Missing, None, Num(72)},
                                                                {Missing}))}

ErrorBodies ==
    {NotJson, JsonBody(Dict([error |-> Bool(TRUE)])),
     JsonBody(Dict([latitude |-> Num(CALGARY_LAT), longitude |-> Num(CALGARY_LON),
                    current |-> Dict([time |-> IsoStr(-1), temperature_2m |-> Num(-5)])]))}

TransportOutcomes ==
    {Raise("ConnectionError"), Raise("Timeout")}
    \cup {HttpResponse(TRUE, b) : b \in FetchBodies}
    \cup {HttpResponse(FALSE, b) : b \in ErrorBodies}

FetchArgs ==
    {[latitude |-> Num(CALGARY_LAT), longitude |-> Num(CALGARY_LON), city |-> Str("Calgary")],
     [latitude |-> Num(40), longitude |-> Num(-74), city |-> Str("New York")]}

\* Records for the validator: each required field missing, null or a value,
\* and the fields it does not require all there, or one or all of them
\* missing or null.
OptionalFields == {"humidity", "wind_speed", "wind_direction", "weather_code", "fetch_time"}

OptionalValues ==
    [humidity |-> Num(72), wind_speed |-> Num(15), wind_direction |-> Num(270),
     weather_code |-> Num(3), fetch_time |-> Datetime(0)]

OptionalVariants ==
    {[k \in OptionalFields |-> IF k \in S THEN fill ELSE OptionalValues[k]] :
        S \in {{}, OptionalFields} \cup {{k} : k \in OptionalFields},
        fill \in {Missing, None}}

ValidateRecords ==
    {None, Num(5), List(<<>>), List(<<Str("timestamp")>>), Str("timestamp"), Str("")}
    \cup {Present([timestamp |-> ts, latitude |-> la, longitude |-> lo,
                   temperature |-> te, city |-> ci] @@ opt) :
            ts \in {Missing, None, Datetime(0)}, la \in LatOpts, lo \in LonOpts,
            te \in TempOpts, ci \in {Missing, None, Str("Calgary")},
            opt \in OptionalVariants}

WeatherCodes == -MaxCode .. MaxCode

(***************************************************************************)
(* The calls.  A behaviour is one call: Init draws the function and its    *)
(* arguments, the actions run it.                                          *)
(***************************************************************************)
Start(o, a) ==
    /\ pc = "call"
    /\ op = o
    /\ args = a
    /\ response = NoResponse
    /\ requests = 0
    /\ clock = 0
    /\ parsed = Pending
    /\ ret = Pending

InitValidate == \E r \in ValidateRecords : Start("validate", [record |-> r])

InitDescribe == \E c \in WeatherCodes : Start("describe", [weather_code |-> c])

InitParse ==
    \E r \in ParseResponses, c \in Cities :
        Start("parse", [api_response |-> r, city |-> c])

InitPipeline ==
    \E r \in RangeResponses \cup ParseResponses, c \in Cities :
        Start("pipeline", [api_response |-> r, city |-> c])

InitFetch == \E a \in FetchArgs : Start("fetch", a)

Init == InitValidate \/ InitDescribe \/ InitParse \/ InitPipeline \/ InitFetch

\* The two readings of the wall clock during a call.
Readings == {t \in (0 .. MaxClock) \X (0 .. MaxClock) : clock <= t[1] /\ t[1] <= t[2]}

ValidateCall ==
    /\ pc = "call" /\ op = "validate"
    /\ ret' = validate_weather_record(args.record)
    /\ pc' = "done"
    /\ UNCHANGED <<op, args, response, requests, clock, parsed>>

DescribeCall ==
    /\ pc = "call" /\ op = "describe"
    /\ ret' = get_weather_description(args.weather_code)
    /\ pc' = "done"
    /\ UNCHANGED <<op, args, response, requests, clock, parsed>>

ParseCall ==
    /\ pc = "call" /\ op = "parse"
    /\ \E t \in Readings :
        /\ ret' = parse_weather_response(args.api_response, args.city, t[1], t[2])
        /\ clock' = t[2]
    /\ pc' = "done"
    /\ UNCHANGED <<op, args, response, requests, parsed>>

\* parsed = parse_weather_response(r); is_valid = validate_weather_record(parsed)
PipelineParse ==
    /\ pc = "call" /\ op = "pipeline"
    /\ \E t \in Readings :
        /\ parsed' = parse_weather_response(args.api_response, args.city, t[1], t[2])
        /\ clock' = t[2]
    /\ pc' = "parsed"
    /\ UNCHANGED <<op, args, response, requests, ret>>

PipelineValidate ==
    /\ pc = "parsed" /\ op = "pipeline"
    /\ ret' = (IF parsed.kind = "return" THEN validate_weather_record(parsed.val)
               ELSE parsed)
    /\ pc' = "done"
    /\ UNCHANGED <<op, args, response, requests, clock, parsed>>

\* requests.get(api_url, params=params, timeout=timeout)
FetchGet ==
    /\ pc = "call" /\ op = "fetch"
    /\ requests' = requests + 1
    /\ \E o \in TransportOutcomes :
        IF o.kind = "raise"
        THEN /\ ret' = FetchExcept(o)
             /\ pc' = "done"
             /\ UNCHANGED response
        ELSE /\ response' = o
             /\ pc' = "raise_for_status"
             /\ UNCHANGED ret
    /\ UNCHANGED <<op, args, clock, parsed>>

\* Faulty variant of FetchRaiseForStatus: a failed status sends the request
\* again.
FetchRaiseForStatusRetry ==
    /\ pc = "raise_for_status" /\ op = "fetch"
    /\ IF raise_for_status(response).kind = "raise"
       THEN IF requests < 3
            THEN /\ pc' = "call"
                 /\ response' = NoResponse
                 /\ UNCHANGED ret
            ELSE /\ ret' = FetchExcept(raise_for_status(response))
                 /\ pc' = "done"
                 /\ UNCHANGED response
       ELSE /\ pc' = "json"
            /\ UNCHANGED <<ret, response>>
    /\ UNCHANGED <<op, args, requests, clock, parsed>>

FetchRaiseForStatus ==
    /\ pc = "raise_for_status" /\ op = "fetch"
    /\ IF raise_for_status(response).kind = "raise"
       THEN /\ ret' = FetchExcept(raise_for_status(response))
            /\ pc' = "done"
       ELSE /\ pc' = "json"
            /\ UNCHANGED ret
    /\ UNCHANGED <<op, args, response, requests, clock, parsed>>

FetchBuild ==
    /\ pc = "json" /\ op = "fetch"
    /\ \E t \in Readings :
        /\ ret' = FetchExcept(FetchBody(response, args.latitude, args.longitude,
                                        args.city, t[1], t[2]))
        /\ clock' = t[2]
    /\ pc' = "done"
    /\ UNCHANGED <<op, args, response, requests, parsed>>

Next ==
    \/ ValidateCall
    \/ DescribeCall
    \/ ParseCall
    \/ PipelineParse
    \/ PipelineValidate
    \/ FetchGet
    \/ FetchRaiseForStatus
    \/ FetchBuild

Spec == Init /\ [][Next]_vars

SpecValidate == InitValidate /\ [][ValidateCall]_vars
SpecDescribe == InitDescribe /\ [][DescribeCall]_vars
SpecParse == InitParse /\ [][ParseCall]_vars
SpecPipeline == InitPipeline /\ [][PipelineParse \/ PipelineValidate]_vars
SpecFetch == InitFetch /\ [][FetchGet \/ FetchRaiseForStatus \/ FetchBuild]_vars

(***************************************************************************)
(* Properties.                                                             *)
(***************************************************************************)
Done(o) == pc = "done" /\ op = o

\* The value a record must hold for a key of `current`: null when missing.
OrNull(d, key) == IF key \in DOMAIN d.v THEN d.v[key] ELSE None

\* current.time is missing or the ISO-8601 text of an instant.
TimeUsable(current) == ~Has(current, "time") \/ current.v["time"].t = "isostr"

InRange(x, lo, hi) == x.t = "num" /\ lo <= x.v /\ x.v <= hi

\* The five metrics of a record are those of `current`, null when missing.
MetricsFrom(rec, current) ==
    /\ rec["temperature"] = OrNull(current, "temperature_2m")
    /\ rec["humidity"] = OrNull(current, "relative_humidity_2m")
    /\ rec["wind_speed"] = OrNull(current, "wind_speed_10m")
    /\ rec["wind_direction"] = OrNull(current, "wind_direction_10m")
    /\ rec["weather_code"] = OrNull(current, "weather_code")

(***************************************************************************)
(* The fetcher.                                                            *)
(***************************************************************************)
Body == response.body.data

BodyCurrent == IF Has(Body, "current") THEN Body.v["current"] ELSE EmptyDict

\* The transport outcomes that are failures: the GET raised, the status is
\* no success, the body is no JSON or no mapping, `current` or its time
\* cannot be read.
FetchFailure ==
    \/ response = NoResponse
    \/ ~response.ok
    \/ ~response.body.json
    \/ Body.t # "dict"
    \/ BodyCurrent.t # "dict"
    \/ ~TimeUsable(BodyCurrent)

\* C1: fetch_weather_data never ends in an exception: it returns None on
\* every failure of the transport, the status, the body or a field, and a
\* record in every other case.
C1_FetchNeverRaises ==
    op = "fetch" =>
        /\ ret.kind # "raise"
        /\ pc = "done" =>
            /\ ret.kind = "return"
            /\ IF FetchFailure THEN ret.val = None ELSE ret.val.t = "dict"

C1_Witness ==
    /\ Done("fetch")
    /\ response # NoResponse /\ response.ok /\ ~response.body.json
    /\ ret = Return(None)

\* C8: a call of fetch_weather_data sends exactly one GET: none before the
\* request step, one from then on, whatever the outcome.
C8_OneRequest == op = "fetch" => requests = (IF pc = "call" THEN 0 ELSE 1)

C8_Witness ==
    /\ Done("fetch")
    /\ response # NoResponse /\ ~response.ok
    /\ requests = 1
    /\ ret = Return(None)

\* C9: on a success response whose body is a mapping with `current` missing
\* or a mapping (empty or partial) and a usable time, fetch_weather_data
\* returns a record: the metrics of `current`, null when missing, the
\* caller's latitude, longitude and city, and as timestamp the instant of
\* current.time, or a reading of the wall clock when it is missing.
C9_FetchPartialRecord ==
    Done("fetch") /\ ~FetchFailure =>
        /\ ret.kind = "return" /\ ret.val.t = "dict"
        /\ MetricsFrom(ret.val.v, BodyCurrent)
        /\ ret.val.v["latitude"] = args.latitude
        /\ ret.val.v["longitude"] = args.longitude
        /\ ret.val.v["city"] = args.city
        /\ IF Has(BodyCurrent, "time")
           THEN ret.val.v["timestamp"] = Datetime(BodyCurrent.v["time"].v)
           ELSE ret.val.v["timestamp"] \in {Datetime(t) : t \in 0 .. clock}

C9_Witness ==
    /\ Done("fetch") /\ ~FetchFailure
    /\ Has(Body, "latitude") /\ Body.v["latitude"] # args.latitude
    /\ DOMAIN BodyCurrent.v = {"temperature_2m"}
    /\ ret.val.t = "dict"
    /\ ret.val.v["humidity"] = None
    /\ ret.val.v["latitude"] = args.latitude

(***************************************************************************)
(* The parser.                                                             *)
(***************************************************************************)
\* C4: parse_weather_response returns None for every response whose
\* `current` is missing or empty, whatever its other fields and the city.
C4_ParseNoCurrent ==
    Done("parse") /\ args.api_response.t = "dict"
        /\ (~Has(args.api_response, "current")
            \/ args.api_response.v["current"] = EmptyDict)
        => ret = Return(None)

C4_Witness ==
    /\ Done("parse")
    /\ Has(args.api_response, "current")
    /\ args.api_response.v["current"] = EmptyDict
    /\ Has(args.api_response, "latitude") /\ Has(args.api_response, "timezone")
    /\ ret = Return(None)

ParseAccepts(r) ==
    /\ Has(r, "current")
    /\ r.v["current"].t = "dict"
    /\ DOMAIN r.v["current"].v # {}
    /\ TimeUsable(r.v["current"])

\* C5: for a response whose `current` is a non-empty mapping with a usable
\* time, parse_weather_response returns a record: the metrics of `current`,
\* null when missing, the top-level latitude and longitude of the response,
\* null when omitted, and the city argument.
C5_ParseRecordFields ==
    Done("parse") /\ ParseAccepts(args.api_response) =>
        /\ ret.kind = "return" /\ ret.val.t = "dict"
        /\ MetricsFrom(ret.val.v, args.api_response.v["current"])
        /\ ret.val.v["latitude"] = OrNull(args.api_response, "latitude")
        /\ ret.val.v["longitude"] = OrNull(args.api_response, "longitude")
        /\ ret.val.v["city"] = args.city

C5_Witness ==
    /\ Done("parse")
    /\ Has(args.api_response, "current")
    /\ args.api_response.v["current"] = Dict([temperature_2m |-> Num(-5)])
    /\ args.city = Str("Edmonton")
    /\ ret.val.t = "dict"
    /\ ret.val.v["temperature"] = Num(-5)
    /\ ret.val.v["humidity"] = None /\ ret.val.v["wind_speed"] = None
    /\ ret.val.v["wind_direction"] = None /\ ret.val.v["weather_code"] = None

(***************************************************************************)
(* The validator.                                                          *)
(***************************************************************************)
\* A record is valid: every required field is there and not null and the
\* three numbers are in their closed ranges.
ValidRecord(record) ==
    /\ record.t = "dict"
    /\ \A f \in {"timestamp", "latitude", "longitude", "temperature", "city"} :
         f \in DOMAIN record.v /\ record.v[f] # None
    /\ InRange(record.v["latitude"], -90, 90)
    /\ InRange(record.v["longitude"], -180, 180)
    /\ InRange(record.v["temperature"], -100, 60)

\* C2: validate_weather_record returns True exactly for the valid records;
\* the fields it does not require play no part.
C2_ValidateIff ==
    Done("validate") => (ret = Return(Bool(TRUE)) <=> ValidRecord(args.record))

C2_Witness ==
    /\ Done("validate")
    /\ args.record.t = "dict"
    /\ "latitude" \in DOMAIN args.record.v /\ args.record.v["latitude"] = Num(-90)
    /\ "longitude" \in DOMAIN args.record.v /\ args.record.v["longitude"] = Num(180)
    /\ "temperature" \in DOMAIN args.record.v /\ args.record.v["temperature"] = Num(60)
    /\ "humidity" \in DOMAIN args.record.v /\ args.record.v["humidity"] = None
    /\ "fetch_time" \in DOMAIN args.record.v /\ args.record.v["fetch_time"] = None
    /\ ret = Return(Bool(TRUE))

\* C3: validate_weather_record never raises: every call returns a bool.
C3_ValidateReturnsBool ==
    Done("validate") => ret.kind = "return" /\ ret.val.t = "bool"

(***************************************************************************)
(* The describer.                                                          *)
(***************************************************************************)
DocumentedDescriptions ==
    (0 :> "Clear sky") @@ (1 :> "Mainly clear") @@ (2 :> "Partly cloudy")
    @@ (3 :> "Overcast") @@ (45 :> "Fog") @@ (61 :> "Slight rain")
    @@ (71 :> "Slight snow") @@ (73 :> "Moderate snow") @@ (75 :> "Heavy snow")
    @@ (77 :> "Snow grains") @@ (95 :> "Thunderstorm")

EnumeratedCodes ==
    {0, 1, 2, 3, 45, 48, 51, 53, 55, 61, 63, 65, 71, 73, 75, 77, 80, 81, 82, 85,
     86, 95, 96, 99}

\* C6: get_weather_description returns a string: the documented one for a
\* documented code, one other than "Unknown" for every enumerated code, and
\* "Unknown" for every other integer, the negative ones too.
C6_Describe ==
    Done("describe") =>
        /\ ret.kind = "return" /\ ret.val.t = "str"
        /\ args.weather_code \in DOMAIN DocumentedDescriptions =>
             ret.val.v = DocumentedDescriptions[args.weather_code]
        /\ args.weather_code \in EnumeratedCodes <=> ret.val.v # "Unknown"

C6_Witness ==
    /\ Done("describe")
    /\ args.weather_code < 0
    /\ ret = Return(Str("Unknown"))

\* The codes that get_weather_description knows.
KnownCodes == {c \in WeatherCodes : get_weather_description(c) # Return(Str("Unknown"))}

\* C7 (as claimed): the table holds exactly 23 known codes.
C7_TwentyThreeCodes == Done("describe") => Cardinality(KnownCodes) = 23

\* C7 (amended): the table holds exactly 24 known codes, the 24 that the
\* enumeration lists.
C7_TwentyFourCodes ==
    Done("describe") => Cardinality(KnownCodes) = 24 /\ KnownCodes = EnumeratedCodes

C7_Witness ==
    /\ Done("describe")
    /\ args.weather_code = 99
    /\ args.weather_code \in KnownCodes
    /\ ret = Return(Str("Thunderstorm with heavy hail"))

(***************************************************************************)
(* Parse, then validate.                                                   *)
(***************************************************************************)
\* C10: validate_weather_record(parse_weather_response(r, city)) is True
\* exactly when r has a non-empty `current` with a usable time, a top-level
\* latitude in -90..90, a top-level longitude in -180..180 and a
\* temperature_2m in -100..60; a response the parser accepts without one of
\* the three yields a record that is rejected, and so is an absent result.
PipelineValid(r) ==
    /\ ParseAccepts(r)
    /\ Has(r, "latitude") /\ InRange(r.v["latitude"], -90, 90)
    /\ Has(r, "longitude") /\ InRange(r.v["longitude"], -180, 180)
    /\ Has(r.v["current"], "temperature_2m")
    /\ InRange(r.v["current"].v["temperature_2m"], -100, 60)

C10_ParseThenValidate ==
    Done("pipeline") =>
        /\ ret = Return(Bool(TRUE)) <=> PipelineValid(args.api_response)
        /\ parsed = Return(None) => ret = Return(Bool(FALSE))
        /\ ParseAccepts(args.api_response)
             /\ (~Has(args.api_response, "latitude")
                 \/ ~Has(args.api_response, "longitude")
                 \/ ~Has(args.api_response.v["current"], "temperature_2m"))
             => parsed.val.t = "dict" /\ ret = Return(Bool(FALSE))

C10_Witness ==
    /\ Done("pipeline")
    /\ args.api_response =
         Dict([latitude |-> Num(51), longitude |-> Num(-114),
               timezone |-> Str("America/Edmonton"),
               current |-> Dict([time |-> IsoStr(-1), temperature_2m |-> Num(-5),
                                 relative_humidity_2m |-> Num(72),
                                 wind_speed_10m |-> Num(15),
                                 wind_direction_10m |-> Num(270),
                                 weather_code |-> Num(3)])])
    /\ parsed.val.t = "dict"
    /\ parsed.val.v["weather_code"] = Num(3)
    /\ get_weather_description(parsed.val.v["weather_code"].v) = Return(Str("Overcast"))
    /\ ret = Return(Bool(TRUE))

====
